---- MODULE Spec2Model ----
(***************************************************************************)
(* Network lookup/creation wrappers of the daemon, the network             *)
(* reconciliation step of `stack deploy`, and the ID resolver cache.       *)
(*                                                                         *)
(* Strings that are compared by prefix (network names, network IDs and the *)
(* idName / partialID arguments) are sequences of one-character strings.   *)
(* The nil error is the empty sequence, every other error is a tuple whose *)
(* first element is the Go type of the error.  The nil network is          *)
(* NilNetwork.                                                             *)
(***************************************************************************)
EXTENDS Integers, Sequences, FiniteSets, TLC

VARIABLES
    netController,   \* daemon.netController # nil
    nets,            \* the networks known to the libnetwork controller
    ret              \* what the last daemon call was, did and returned

VARIABLES
    mgrNets,             \* the networks of the remote manager: name and namespace label
    pc,                  \* where runDeploy is
    opts,                \* deployOptions.namespace and the services of the bundle
    networks,            \* the slice runDeploy passes to updateNetworks
    existingNetworkMap,  \* the keys of updateNetworks' existingNetworkMap
    idx,                 \* the position of updateNetworks' loop in networks
    result,              \* what runDeploy returned
    log,                 \* the remote calls of this run, in order, with their errors
    atList,              \* the manager's networks when this run listed them
    disturbed,           \* another client changed the networks since this run began
    second               \* this run repeats the undisturbed successful run before it

VARIABLES
    noResolve,   \* IDResolver.noResolve
    cache,       \* IDResolver.cache: the name under each ID, NoName for no entry
    mgrNames,    \* the name the manager holds for each object
    queries,     \* the remote queries this resolver has made for each ID
    returned,    \* the first name Resolve returned for each ID, NoName for none
    rret         \* the last Resolve call and what it returned

resolverVars == <<noResolve, cache, mgrNames, queries, returned, rret>>

deployVars == <<mgrNets, pc, opts, networks, existingNetworkMap, idx, result, log,
                atList, disturbed, second>>

daemonVars == <<netController, nets, ret>>

vars == <<daemonVars, deployVars, resolverVars>>

----------------------------------------------------------------------------
(* Bounds of the model *)

\* NewNetwork fails once the controller holds this many networks
MaxNetworks == 2

\* the empty string
Empty == <<>>

\* the network IDs libnetwork can hand out
IDs == {<<"a", "a">>, <<"a", "b">>, <<"b", "a">>, <<"b", "b">>}

\* names a request can ask for: a reserved one and another, each also a
\* prefix of two IDs, and one that is also a whole ID
NetworkNames == {<<"b">>, <<"a">>, <<"a", "b">>}

\* strings passed to the lookups: the names, full IDs, a string that is
\* neither, and ""
LookupArgs == NetworkNames \cup IDs \cup {<<"a", "a", "a">>, Empty}

----------------------------------------------------------------------------
(* Collaborators outside the daemon package *)

\* runconfig.IsPreDefinedNetwork: the reserved network names
PreDefinedNetworks == {<<"b">>}

IsPreDefinedNetwork(name) == name \in PreDefinedNetworks

\* c.Config().Daemon.DefaultNetwork
DefaultNetwork == <<"b">>

NilErr == <<>>
NilNetwork == [id |-> Empty, name |-> Empty]

\* no response
NoResp == [ID |-> Empty, Warning |-> <<>>]

\* no lookup was made
NoLookup == [nw |-> NilNetwork, err |-> NilErr]

ErrNoSuchNetwork(s) == <<"ErrNoSuchNetwork", s>>
ErrInvalidID(s) == <<"ErrInvalidID", s>>
NetworkNameError(s) == <<"NetworkNameError", s>>
RequestForbiddenError(s) == <<"RequestForbiddenError", s>>
\* an error of the library that is none of the above (store failure,
\* driver failure, active endpoints, invalid name ...)
ErrLibrary == <<"ErrLibrary">>
\* the run-time panic of a method call on the nil controller
NilPanic == <<"panic: nil netController">>

HasPrefix(s, prefix) ==
    /\ Len(prefix) <= Len(s)
    /\ SubSeq(s, 1, Len(prefix)) = prefix

\* c.NetworkByName(name): what the library may answer
NetworkByName(name) ==
    LET found == {n \in nets : n.name = name}
    IN  {[nw |-> n, err |-> NilErr] : n \in found}
        \cup (IF found = {} THEN {[nw |-> NilNetwork, err |-> ErrNoSuchNetwork(name)]}
                            ELSE {})
        \cup {[nw |-> NilNetwork, err |-> ErrLibrary]}

----------------------------------------------------------------------------
(* Lookups of the daemon *)

isNoSuchNetworkError(err) == err # NilErr /\ err[1] = "ErrNoSuchNetwork"

GetNetworksByID(partialID) ==
    IF ~netController THEN {}
    ELSE {nw \in nets : HasPrefix(nw.id, partialID)}

\* GetNetworkByID without the check for several matches
GetNetworkByID_anyMatch(partialID) ==
    LET list == GetNetworksByID(partialID)
    IN  IF Cardinality(list) = 0
        THEN [nw |-> NilNetwork, err |-> ErrNoSuchNetwork(partialID)]
        ELSE [nw |-> CHOOSE n \in list : TRUE, err |-> NilErr]

GetNetworkByID(partialID) ==
    LET list == GetNetworksByID(partialID)
    IN  IF Cardinality(list) = 0
        THEN [nw |-> NilNetwork, err |-> ErrNoSuchNetwork(partialID)]
        ELSE IF Cardinality(list) > 1
        THEN [nw |-> NilNetwork, err |-> ErrInvalidID(partialID)]
        ELSE [nw |-> CHOOSE n \in list : TRUE, err |-> NilErr]

\* the possible results of GetNetworkByName
GetNetworkByName(name) ==
    IF ~netController
    THEN {[nw |-> NilNetwork, err |-> ErrNoSuchNetwork(name)]}
    ELSE NetworkByName(IF name = Empty THEN DefaultNetwork ELSE name)

\* FindNetwork trying the ID before the name
FindNetworkWith_idFirst(idName, byName) ==
    LET byID == GetNetworkByID(idName)
    IN  IF byID.err = NilErr
        THEN [nw |-> byID.nw, err |-> NilErr, byName |-> NoLookup,
              calls |-> <<"GetNetworkByID">>]
        ELSE [nw |-> byName.nw, err |-> byName.err, byName |-> byName,
              calls |-> <<"GetNetworkByID", "GetNetworkByName">>]

\* FindNetwork, given the result byName of its call of GetNetworkByName;
\* calls lists the lookups made
FindNetworkWith(idName, byName) ==
    IF byName.err # NilErr /\ ~isNoSuchNetworkError(byName.err)
    THEN [nw |-> NilNetwork, err |-> byName.err, byName |-> byName,
          calls |-> <<"GetNetworkByName">>]
    ELSE IF byName.nw # NilNetwork
    THEN [nw |-> byName.nw, err |-> NilErr, byName |-> byName,
          calls |-> <<"GetNetworkByName">>]
    ELSE LET byID == GetNetworkByID(idName)
         IN  [nw |-> byID.nw, err |-> byID.err, byName |-> byName,
              calls |-> <<"GetNetworkByName", "GetNetworkByID">>]

\* the possible results of FindNetwork
FindNetworkResults(idName) ==
    {FindNetworkWith(idName, byName) : byName \in GetNetworkByName(idName)}


\* the record of a call: the operation, its arguments, what its lookup
\* (GetNetworkByName in FindNetwork and createNetwork, FindNetwork in
\* deleteNetwork) returned, the calls it made in order, and what it returned
Ret(op, arg, flag, agent, found, nw, err, resp, calls) ==
    [op |-> op, arg |-> arg, flag |-> flag, agent |-> agent, found |-> found,
     nw |-> nw, err |-> err, resp |-> resp, calls |-> calls]

FindNetwork(idName) ==
    /\ \E r \in FindNetworkResults(idName) :
          ret' = Ret("FindNetwork", idName, FALSE, FALSE, r.byName,
                     r.nw, r.err, NoResp, r.calls)
    /\ UNCHANGED <<netController, nets, deployVars, resolverVars>>

GetNetworkByIDCall(partialID) ==
    /\ LET r == GetNetworkByID(partialID)
       IN  ret' = Ret("GetNetworkByID", partialID, FALSE, FALSE, NoLookup,
                      r.nw, r.err, NoResp, <<"GetNetworksByID">>)
    /\ UNCHANGED <<netController, nets, deployVars, resolverVars>>

----------------------------------------------------------------------------
(* createNetwork *)

\* the requests: Name, CheckDuplicate, whether Driver is non-empty, and
\* whether every IPAM subnet parses as a CIDR.  With a controller the
\* driver only selects what the library is asked for, so one value stands
\* for all.
CreateRequests ==
    [Name : NetworkNames \cup {Empty}, CheckDuplicate : BOOLEAN,
     DriverSet : IF netController THEN {TRUE} ELSE BOOLEAN, SubnetsValid : BOOLEAN]

\* the warning string built from the existing network, "" as <<>>
Warning(nw) == IF nw = NilNetwork THEN <<>> ELSE <<"already exists", nw.name, nw.id>>

\* the reserved-name rejection with the agent flag inverted
RejectPreDefined_agentOnly(name, agent) == IsPreDefinedNetwork(name) /\ agent

\* the guard of the reserved-name rejection
RejectPreDefined(name, agent) == IsPreDefinedNetwork(name) /\ ~agent

\* the duplicate-name rejection whatever CheckDuplicate says
RejectDuplicate_always(nw, create) == nw # NilNetwork

\* the guard of the duplicate-name rejection
RejectDuplicate(nw, create) == nw # NilNetwork /\ create.CheckDuplicate

\* c.NewNetwork(driver, name, id, ...): the networks the library may create;
\* none when it fails (invalid name, ID in use, driver or store error, and
\* the bound of the model)
NewNetwork(name, id) ==
    IF name = Empty \/ Cardinality(nets) >= MaxNetworks THEN {}
    ELSE {[id |-> i, name |-> name] :
            i \in {j \in IDs : /\ id \in {Empty, j}
                               /\ \A n \in nets : n.id # j}}

\* createNetwork after the reserved-name check, given the result byName of
\* GetNetworkByName and the result created of NewNetwork ({} : it failed)
createNetworkWith(create, agent, byName, created) ==
    LET r(err, resp, calls) ==
            Ret("createNetwork", create.Name, create.CheckDuplicate, agent,
                byName, NilNetwork, err, resp, calls)
    IN  IF byName.err # NilErr /\ ~isNoSuchNetworkError(byName.err)
        THEN r(byName.err, NoResp, <<"GetNetworkByName">>)
        ELSE IF RejectDuplicate(byName.nw, create)
        THEN r(NetworkNameError(create.Name), NoResp, <<"GetNetworkByName">>)
        ELSE IF ~netController /\ ~create.DriverSet
        THEN r(NilPanic, NoResp, <<"GetNetworkByName">>)
        ELSE IF ~create.SubnetsValid
        THEN r(<<"Invalid subnet">>, NoResp, <<"GetNetworkByName", "getIpamConfig">>)
        ELSE IF ~netController
        THEN r(NilPanic, NoResp, <<"GetNetworkByName", "getIpamConfig">>)
        ELSE IF created = {}
        THEN r(ErrLibrary, NoResp,
               <<"GetNetworkByName", "getIpamConfig", "NewNetwork">>)
        ELSE LET n == CHOOSE x \in created : TRUE
             IN  [r(NilErr, [ID |-> n.id, Warning |-> Warning(byName.nw)],
                    <<"GetNetworkByName", "getIpamConfig", "NewNetwork",
                      "LogNetworkEvent create">>)
                  EXCEPT !.nw = n]

createNetwork(create, id, agent) ==
    /\ IF RejectPreDefined(create.Name, agent)
       THEN ret' = Ret("createNetwork", create.Name, create.CheckDuplicate, agent,
                       NoLookup, NilNetwork,
                       RequestForbiddenError(<<"cannot be created", create.Name>>),
                       NoResp, <<>>)
       ELSE \E byName \in GetNetworkByName(create.Name) :
            \E created \in {{}} \cup {{n} : n \in NewNetwork(create.Name, id)} :
                ret' = createNetworkWith(create, agent, byName, created)
    /\ nets' = IF "NewNetwork" \in {ret'.calls[i] : i \in DOMAIN ret'.calls}
                  /\ ret'.err = NilErr
               THEN nets \cup {ret'.nw}
               ELSE nets
    /\ UNCHANGED <<netController, deployVars, resolverVars>>

CreateNetwork(create) == createNetwork(create, Empty, FALSE)

----------------------------------------------------------------------------
(* deleteNetwork *)

\* the reserved-network rejection with the dynamic flag inverted
RejectDelete_dynamicOnly(nw, dynamic) == IsPreDefinedNetwork(nw.name) /\ dynamic

\* the guard of the reserved-network rejection
RejectDelete(nw, dynamic) == IsPreDefinedNetwork(nw.name) /\ ~dynamic

\* deleteNetwork, given the result found of FindNetwork and whether
\* nw.Delete() succeeds
deleteNetworkWith(op, networkID, dynamic, found, deleted) ==
    LET r(nw, err, calls) ==
            Ret(op, networkID, dynamic, FALSE, [nw |-> found.nw, err |-> found.err],
                nw, err, NoResp, found.calls \o calls)
    IN  IF found.err # NilErr
        THEN r(NilNetwork, found.err, <<>>)
        ELSE IF RejectDelete(found.nw, dynamic)
        THEN r(NilNetwork,
               RequestForbiddenError(<<"cannot be removed", found.nw.name>>), <<>>)
        ELSE IF ~deleted
        THEN r(NilNetwork, ErrLibrary, <<"Delete">>)
        ELSE r(found.nw, NilErr, <<"Delete", "LogNetworkEvent destroy">>)

deleteNetwork(op, networkID, dynamic) ==
    /\ \E found \in FindNetworkResults(networkID) : \E deleted \in BOOLEAN :
          ret' = deleteNetworkWith(op, networkID, dynamic, found, deleted)
    /\ nets' = IF ret'.err = NilErr THEN nets \ {ret'.nw} ELSE nets
    /\ UNCHANGED <<netController, deployVars, resolverVars>>

DeleteManagedNetwork(networkID) == deleteNetwork("DeleteManagedNetwork", networkID, TRUE)

DeleteNetwork(networkID) == deleteNetwork("DeleteNetwork", networkID, FALSE)

----------------------------------------------------------------------------
(* The daemon *)

NoRet == Ret("none", Empty, FALSE, FALSE, NoLookup, NilNetwork, NilErr, NoResp, <<>>)

\* a daemon without network controller holds no network; one with a
\* controller starts with the reserved network
DaemonInit ==
    /\ netController \in BOOLEAN
    /\ nets \in IF netController
                THEN {{[id |-> i, name |-> n]} : i \in IDs, n \in PreDefinedNetworks}
                ELSE {{}}
    /\ ret = NoRet

DaemonNext ==
    \/ \E idName \in LookupArgs : FindNetwork(idName)
    \/ \E partialID \in LookupArgs : GetNetworkByIDCall(partialID)
    \/ \E create \in CreateRequests : CreateNetwork(create)
    \/ \E create \in CreateRequests, id \in IDs :
          createNetwork(create, id, TRUE)
    \/ \E networkID \in LookupArgs : DeleteNetwork(networkID)
    \/ \E networkID \in LookupArgs : DeleteManagedNetwork(networkID)

----------------------------------------------------------------------------
(* Properties of the daemon's network calls *)

\* the networks known to the controller whose ID starts with partialID
Matching(partialID) ==
    {n \in nets : \E k \in 0..Len(n.id) : SubSeq(n.id, 1, k) = partialID}

\* r is what the number of matches of partialID decides
DecidedByMatches(partialID, r) ==
    LET k == Cardinality(Matching(partialID))
    IN  /\ k = 0 => r.nw = NilNetwork /\ r.err = ErrNoSuchNetwork(partialID)
        /\ k = 1 => r.nw \in Matching(partialID) /\ r.err = NilErr
        /\ k > 1 => r.nw = NilNetwork /\ r.err = ErrInvalidID(partialID)

\* C2: GetNetworkByID(partialID) fails with "no such network" when no
\* network's ID starts with partialID, returns the network when exactly one
\* does, and fails with "invalid ID" and no network when several do; for
\* every partialID and every set of networks, a nil controller counting as
\* no match.
C2_GetNetworkByIDDecidedByMatches ==
    /\ \A partialID \in LookupArgs :
          DecidedByMatches(partialID, GetNetworkByID(partialID))
    /\ ret.op = "GetNetworkByID" => DecidedByMatches(ret.arg, ret)

\* a call whose argument is the prefix of several IDs was refused
C2_Witness ==
    /\ ret.op = "GetNetworkByID"
    /\ ret.arg # Empty
    /\ Cardinality(Matching(ret.arg)) > 1
    /\ ret.err = ErrInvalidID(ret.arg)

Called(r, call) == \E i \in DOMAIN r.calls : r.calls[i] = call

IsForbidden(err) == err # NilErr /\ err[1] = "RequestForbiddenError"

\* C5: createNetwork for a reserved name with agent = false returns a
\* forbidden-request error before any lookup or library call: no NewNetwork,
\* no "create" event, the networks unchanged.  With agent = true no
\* forbidden-request error is returned and the name lookup is made.
C5_ReservedNameRejectedLocally ==
    [][/\ (ret'.op = "createNetwork" /\ IsPreDefinedNetwork(ret'.arg) /\ ~ret'.agent)
          => /\ IsForbidden(ret'.err)
             /\ ret'.calls = <<>>
             /\ ret'.resp = NoResp
             /\ nets' = nets
       /\ (ret'.op = "createNetwork" /\ IsPreDefinedNetwork(ret'.arg) /\ ret'.agent)
          => /\ ~IsForbidden(ret'.err)
             /\ Called(ret', "GetNetworkByName")]_vars

\* CreateNetwork was refused a reserved name
C5_Witness ==
    /\ ret.op = "createNetwork"
    /\ IsPreDefinedNetwork(ret.arg)
    /\ ~ret.agent
    /\ IsForbidden(ret.err)
    /\ ret.calls = <<>>

\* createNetwork found a network under the requested name
Duplicate(r) == r.op = "createNetwork" /\ r.found.nw # NilNetwork

\* the first two parts of C6, and its last
DuplicateHandling ==
    /\ (Duplicate(ret') /\ ret'.flag)
       => /\ ret'.err = NetworkNameError(ret'.arg)
          /\ ~Called(ret', "NewNetwork")
          /\ nets' = nets
    /\ (Duplicate(ret') /\ ~ret'.flag)
       => /\ ret'.err = NilErr
             => /\ ret'.resp.ID = ret'.nw.id
                /\ ret'.nw \in nets' \ nets
                /\ ret'.resp.Warning # <<>>
                /\ ret'.resp.Warning = Warning(ret'.found.nw)
                /\ ret'.found.nw \in nets
    /\ (ret'.op = "createNetwork" /\ ret'.found.nw = NilNetwork)
       => ret'.resp.Warning = <<>>

\* C6 as claimed: when GetNetworkByName finds a network under the requested
\* name, createNetwork with CheckDuplicate fails with the network-name
\* error, calls no NewNetwork and adds no network; without CheckDuplicate it
\* proceeds to NewNetwork, and when that succeeds the response carries the
\* new ID and a non-empty warning naming the existing network; without an
\* existing network the warning is empty.
C6_Original ==
    [][/\ DuplicateHandling
       /\ (Duplicate(ret') /\ ~ret'.flag /\ ret'.arg # Empty)
          => Called(ret', "NewNetwork")]_vars

\* C6 as amended: without CheckDuplicate createNetwork proceeds past the
\* duplicate to getIpamConfig, and to NewNetwork unless getIpamConfig
\* rejects a subnet of the request.
C6_DuplicateRejectedOrWarned ==
    [][/\ DuplicateHandling
       /\ (Duplicate(ret') /\ ~ret'.flag)
          => /\ Called(ret', "getIpamConfig")
             /\ ret'.err # NetworkNameError(ret'.arg)
             /\ Called(ret', "NewNetwork") \/ ret'.err = <<"Invalid subnet">>]_vars

\* a duplicate was created with a warning
C6_Witness ==
    /\ Duplicate(ret)
    /\ ~ret.flag
    /\ ret.err = NilErr
    /\ ret.resp.Warning # <<>>
    /\ Cardinality({n \in nets : n.name = ret.arg}) > 1

\* C7: DeleteNetwork, for every argument FindNetwork resolves to a network
\* with a reserved name, returns a forbidden-request error, calls no Delete
\* and logs no "destroy" event; a step that removes a network with a
\* reserved name is a DeleteManagedNetwork.
C7_DeleteNetworkKeepsPreDefined ==
    [][/\ (/\ ret'.op = "DeleteNetwork"
           /\ ret'.found.err = NilErr
           /\ IsPreDefinedNetwork(ret'.found.nw.name))
          => /\ IsForbidden(ret'.err)
             /\ ~Called(ret', "Delete")
             /\ ~Called(ret', "LogNetworkEvent destroy")
             /\ nets' = nets
       /\ \A n \in nets :
             (IsPreDefinedNetwork(n.name) /\ n \notin nets')
             => ret'.op = "DeleteManagedNetwork"]_vars

\* DeleteNetwork was refused a reserved network given by a prefix of its ID
C7_Witness ==
    /\ ret.op = "DeleteNetwork"
    /\ ret.found.err = NilErr
    /\ IsPreDefinedNetwork(ret.found.nw.name)
    /\ ret.arg # ret.found.nw.name
    /\ ret.arg # Empty
    /\ IsForbidden(ret.err)
    /\ ret.found.nw \in nets

\* FindNetwork went on to the ID lookup
ByID(r) == Called(r, "GetNetworkByID")

\* C10: FindNetwork returns the network the name lookup found, with no
\* error and without the ID lookup, also when idName is a prefix of several
\* IDs; the ID lookup is made only when the name lookup returned no network
\* with no error or a no-such-network error; another error of the name
\* lookup is returned as it is, without the ID lookup.
C10_NameBeforeID ==
    ret.op = "FindNetwork" =>
        /\ ret.found.nw # NilNetwork
           => ret.nw = ret.found.nw /\ ret.err = NilErr /\ ~ByID(ret)
        /\ ((\E n \in nets : n.name = ret.arg) /\ ret.found.err # ErrLibrary)
           => ret.nw \in nets /\ ret.nw.name = ret.arg /\ ret.err = NilErr
        /\ ByID(ret)
           => /\ ret.found.nw = NilNetwork
              /\ ret.found.err = NilErr \/ isNoSuchNetworkError(ret.found.err)
              /\ DecidedByMatches(ret.arg, ret)
        /\ (ret.found.err # NilErr /\ ~isNoSuchNetworkError(ret.found.err))
           => ret.err = ret.found.err /\ ret.nw = NilNetwork /\ ~ByID(ret)

\* a name was found that is also the prefix of the IDs of several networks
C10_Witness ==
    /\ ret.op = "FindNetwork"
    /\ ret.nw # NilNetwork
    /\ ret.nw.name = ret.arg
    /\ ret.err = NilErr
    /\ Cardinality(Matching(ret.arg)) > 1

----------------------------------------------------------------------------
(* stack deploy: the bundle and the manager *)

\* the longest Networks list of a service
MaxRefs == 1
\* networks other clients may have put on the manager
MaxForeign == 1

\* network names used inside bundles
InternalNames == {<<"u">>, <<"t", "_", "u">>}

\* stack namespaces (the STACK argument)
Namespaces == {<<"s">>, <<"s", "_", "t">>}

ServiceNames == {"web", "db"}

\* bundle.Services: each service with its Networks list
Bundles == [ServiceNames -> UNION {[1..k -> InternalNames] : k \in 0..MaxRefs}]

\* the errors of the remote API
ApiErrors == {<<"ErrConnection">>, <<"ErrServer">>}

\* a label map without the namespace label
NoLabel == Empty

\* NetworkList with getStackFilter(namespace): the networks whose
\* labelNamespace label equals namespace
getNetworks(namespace) == {n \in mgrNets : n.label = namespace}

\* fmt.Sprintf("%s_%s", namespace, internalName)
NamespacedName(namespace, internalName) == namespace \o <<"_">> \o internalName

Range(seq) == {seq[i] : i \in DOMAIN seq}

\* getUniqueNetworkNames without the set: every reference of every service
getUniqueNetworkNames_all(services) ==
    {services["web"] \o services["db"], services["db"] \o services["web"]}

\* the set getUniqueNetworkNames collects
networkSet(services) == UNION {Range(services[sv]) : sv \in DOMAIN services}

\* the slices getUniqueNetworkNames may return: the set in any order
getUniqueNetworkNames(services) ==
    {sq \in [1..Cardinality(networkSet(services)) -> networkSet(services)] :
        Range(sq) = networkSet(services)}

Call(call, name, err) == [call |-> call, name |-> name, err |-> err]

\* the previous run ended well and nobody touched the networks since it began
Settled == pc = "done" /\ result = NilErr /\ ~disturbed

----------------------------------------------------------------------------
(* runDeploy *)

\* runDeploy has returned: its locals are gone
Returned ==
    /\ networks' = <<>>
    /\ existingNetworkMap' = {}
    /\ idx' = 1

\* runDeploy up to the first remote call: loadBundlefile,
\* getUniqueNetworkNames, and updateNetworks' listing of the networks.
\* Every run of a behaviour is the same command line: opts is set once.
runDeploy ==
    /\ pc \in {"idle", "done"}
    /\ second' = Settled
    /\ disturbed' = FALSE
    /\ atList' = mgrNets
    /\ \/ \* loadBundlefile fails
          /\ pc' = "done"
          /\ result' = <<"ErrBundlefile">>
          /\ log' = <<>>
          /\ Returned
       \/ \* the listing fails
          \E err \in ApiErrors :
            /\ pc' = "done"
            /\ result' = err
            /\ log' = <<Call("NetworkList", Empty, err)>>
            /\ Returned
       \/ \E nws \in getUniqueNetworkNames(opts.services) :
            /\ pc' = "updateNetworks"
            /\ result' = NilErr
            /\ log' = <<Call("NetworkList", Empty, NilErr)>>
            /\ networks' = nws
            /\ existingNetworkMap' = {n.name : n \in getNetworks(opts.namespace)}
            /\ idx' = 1
    /\ UNCHANGED <<mgrNets, opts, daemonVars, resolverVars>>

\* the loop's test with the internal name in place of the namespaced one
exists_internalName(namespace, internalName) == internalName \in existingNetworkMap

\* whether the loop finds the network in existingNetworkMap and skips it
exists(namespace, internalName) ==
    NamespacedName(namespace, internalName) \in existingNetworkMap

\* the loop going on to the next network after a failed NetworkCreate
onCreateError_continue(err) == [pc |-> "updateNetworks", result |-> NilErr]

\* where a failed NetworkCreate leaves the run: updateNetworks and runDeploy
\* return err
onCreateError(err) == [pc |-> "done", result |-> err]

\* getStackLabels leaving the namespace label out
getStackLabels_unlabelled(namespace) == NoLabel

\* getStackLabels(namespace, nil): the label map, here the value it holds
\* under labelNamespace
getStackLabels(namespace) == namespace

\* one pass of the loop of updateNetworks, or its return past the end
updateNetworks ==
    /\ pc = "updateNetworks"
    /\ IF idx > Len(networks)
       THEN /\ pc' = "deployServices"
            /\ UNCHANGED <<mgrNets, idx, result, log, networks, existingNetworkMap>>
       ELSE LET name == NamespacedName(opts.namespace, networks[idx])
            IN  IF exists(opts.namespace, networks[idx])
                THEN /\ idx' = idx + 1
                     /\ UNCHANGED <<mgrNets, pc, result, log, networks,
                                    existingNetworkMap>>
                ELSE \/ /\ mgrNets' = mgrNets \cup
                                {[name |-> name, label |-> getStackLabels(opts.namespace)]}
                        /\ log' = Append(log, Call("NetworkCreate", name, NilErr))
                        /\ idx' = idx + 1
                        /\ UNCHANGED <<pc, result, networks, existingNetworkMap>>
                     \/ \E err \in ApiErrors :
                        /\ log' = Append(log, Call("NetworkCreate", name, err))
                        /\ result' = onCreateError(err).result
                        /\ pc' = onCreateError(err).pc
                        /\ IF pc' = "done"
                           THEN Returned
                           ELSE /\ idx' = idx + 1
                                /\ UNCHANGED <<networks, existingNetworkMap>>
                        /\ UNCHANGED mgrNets
    /\ UNCHANGED <<opts, atList, disturbed, second>>
    /\ UNCHANGED <<daemonVars, resolverVars>>

\* deployServices: the listing of the services, whose error it returns
deployServices ==
    /\ pc = "deployServices"
    /\ \E err \in ApiErrors \cup {NilErr} :
          /\ log' = Append(log, Call("deployServices", Empty, err))
          /\ result' = err
    /\ pc' = "done"
    /\ Returned
    /\ UNCHANGED <<mgrNets, opts, atList, disturbed, second>>
    /\ UNCHANGED <<daemonVars, resolverVars>>

\* the names the networks of this stack can have
StackNetworkNames == {NamespacedName(opts.namespace, n) : n \in InternalNames}

\* another client of the manager creates a network under one of these
\* names (networks of other names are never looked at), with the label of
\* this namespace, of another one, or without it
OtherClientCreates ==
    /\ Cardinality(mgrNets) < MaxForeign
    /\ \E name \in StackNetworkNames, label \in Namespaces \cup {NoLabel} :
          /\ [name |-> name, label |-> label] \notin mgrNets
          /\ mgrNets' = mgrNets \cup {[name |-> name, label |-> label]}
    /\ disturbed' = TRUE
    /\ UNCHANGED <<pc, opts, networks, existingNetworkMap, idx, result, log,
                   atList, second>>
    /\ UNCHANGED <<daemonVars, resolverVars>>

\* another client of the manager removes a network
OtherClientRemoves ==
    /\ \E n \in mgrNets : mgrNets' = mgrNets \ {n}
    /\ disturbed' = TRUE
    /\ UNCHANGED <<pc, opts, networks, existingNetworkMap, idx, result, log,
                   atList, second>>
    /\ UNCHANGED <<daemonVars, resolverVars>>

DeployInit ==
    /\ mgrNets = {}
    /\ pc = "idle"
    /\ opts \in [namespace : Namespaces, services : Bundles]
    /\ networks = <<>>
    /\ existingNetworkMap = {}
    /\ idx = 1
    /\ result = NilErr
    /\ log = <<>>
    /\ atList = {}
    /\ disturbed = FALSE
    /\ second = FALSE

DeployNext ==
    \/ runDeploy
    \/ updateNetworks
    \/ deployServices
    \/ OtherClientCreates
    \/ OtherClientRemoves

----------------------------------------------------------------------------
(* Properties of stack deploy *)

\* the positions of the NetworkCreate calls in the log of this run
Creates == {k \in DOMAIN log : log[k].call = "NetworkCreate"}

\* the networks the bundle refers to, under their namespaced names
Referenced == {NamespacedName(opts.namespace, n) : n \in networkSet(opts.services)}

\* C1 as claimed: the deploy issues no NetworkCreate for a name under which
\* a network existed at the manager when the deploy listed the networks,
\* labelled with the namespace or not.
C1_Original ==
    \A k \in Creates : \A n \in atList : n.name # log[k].name

\* C1 as amended: the deploy issues no NetworkCreate for a name under which
\* a network carrying the namespace label of this stack existed at the
\* manager when the deploy listed the networks.
C1_NoCreateForListedNetwork ==
    \A k \in Creates :
        \A n \in atList : n.label = opts.namespace => n.name # log[k].name

\* a finished deploy passed over a referenced network that was there, with
\* the label, when it listed the networks
C1_Witness ==
    /\ pc = "done"
    /\ result = NilErr
    /\ \E n \in atList : n.label = opts.namespace /\ n.name \in Referenced
    /\ C1_NoCreateForListedNetwork

\* the calls of the log before position k went well, and they are the
\* listing and a NetworkCreate for every referenced network not listed
NetworksReady(k) ==
    /\ k > 1
    /\ log[1] = Call("NetworkList", Empty, NilErr)
    /\ \A j \in 1..(k - 1) : log[j].err = NilErr
    /\ \A name \in Referenced :
          \/ \E n \in atList : n.label = opts.namespace /\ n.name = name
          \/ \E j \in 2..(k - 1) : log[j] = Call("NetworkCreate", name, NilErr)

\* C8: deployServices starts only after the listing succeeded and every
\* referenced network missing from it was created; a failed listing or
\* NetworkCreate is the last call of the run, its error is what runDeploy
\* returns, and the networks created before it stay at the manager.
C8_ServicesAfterNetworks ==
    /\ \A k \in DOMAIN log : log[k].call = "deployServices" => NetworksReady(k)
    /\ pc = "deployServices" => NetworksReady(Len(log) + 1)
    /\ \A k \in DOMAIN log :
          (log[k].call \in {"NetworkList", "NetworkCreate"} /\ log[k].err # NilErr)
          => /\ k = Len(log)
             /\ pc = "done"
             /\ result = log[k].err
    /\ ~disturbed =>
          \A k \in Creates :
              log[k].err = NilErr
              => [name |-> log[k].name, label |-> opts.namespace] \in mgrNets

\* a NetworkCreate failed after another one went well
C8_Witness ==
    /\ pc = "done"
    /\ Len(log) = 3
    /\ log[2].call = "NetworkCreate" /\ log[2].err = NilErr
    /\ log[3].call = "NetworkCreate" /\ log[3].err \in ApiErrors
    /\ result = log[3].err
    /\ ~disturbed
    /\ [name |-> log[2].name, label |-> opts.namespace] \in mgrNets

\* C9: a deploy that repeats an undisturbed successful deploy of the same
\* bundle under the same namespace issues no NetworkCreate, and no deploy
\* issues two NetworkCreate calls for one name.
C9_ReconciliationIdempotent ==
    /\ (second /\ ~disturbed) => Creates = {}
    /\ \A j, k \in Creates : log[j].name = log[k].name => j = k

\* the second deploy of a bundle whose services refer to the same network
\* went through without a NetworkCreate
C9_Witness ==
    /\ second
    /\ ~disturbed
    /\ pc = "done"
    /\ result = NilErr
    /\ Referenced # {}
    /\ opts.services["web"] = opts.services["db"]
    /\ Creates = {}
    /\ \A name \in Referenced : [name |-> name, label |-> opts.namespace] \in mgrNets

----------------------------------------------------------------------------
(* IDResolver *)

ObjectIDs == {"id1", "id2"}
ObjectNames == {"name1", "name2"}
ObjectTypes == {"swarm.Node", "swarm.Service"}

\* no entry in the cache / nothing returned yet
NoName == ""

\* the query to the manager for the name of object id of type t
get(t, id) == mgrNames[t, id]

\* Resolve asking the manager every time
ResolveWith_noCache(t, id, had) ==
    IF noResolve
    THEN [name |-> id, err |-> NilErr, queried |-> FALSE, store |-> NoName]
    ELSE [name |-> get(t, id), err |-> NilErr, queried |-> TRUE, store |-> get(t, id)]

\* Resolve looking at noResolve only after the cache missed
ResolveWith_flagLast(t, id, had) ==
    IF had # NoName
    THEN [name |-> had, err |-> NilErr, queried |-> FALSE, store |-> NoName]
    ELSE [name |-> get(t, id), err |-> NilErr, queried |-> TRUE, store |-> get(t, id)]

\* Resolve: had is the cache entry found for id (NoName: none); store is
\* what it puts into the cache under id (NoName: nothing)
ResolveWith(t, id, had) ==
    IF noResolve
    THEN [name |-> id, err |-> NilErr, queried |-> FALSE, store |-> NoName]
    ELSE IF had # NoName
    THEN [name |-> had, err |-> NilErr, queried |-> FALSE, store |-> NoName]
    ELSE [name |-> get(t, id), err |-> NilErr, queried |-> TRUE, store |-> get(t, id)]

Resolve(t, id) ==
    LET r == ResolveWith(t, id, cache[id])
    IN  /\ rret' = [t |-> t, id |-> id, name |-> r.name, err |-> r.err,
                    queried |-> r.queried, returnedBefore |-> returned[id]]
        /\ cache' = IF r.store # NoName THEN [cache EXCEPT ![id] = r.store] ELSE cache
        /\ queries' = IF r.queried THEN [queries EXCEPT ![id] = @ + 1] ELSE queries
        /\ returned' = IF returned[id] = NoName /\ r.err = NilErr
                       THEN [returned EXCEPT ![id] = r.name]
                       ELSE returned
        /\ UNCHANGED <<noResolve, mgrNames, daemonVars, deployVars>>

\* the manager renames an object
ManagerRenames ==
    /\ \E t \in ObjectTypes, id \in ObjectIDs, name \in ObjectNames :
          /\ mgrNames[t, id] # name
          /\ mgrNames' = [mgrNames EXCEPT ![t, id] = name]
    /\ UNCHANGED <<noResolve, cache, queries, returned, rret, daemonVars, deployVars>>

\* no call of Resolve yet
NoResolve == [t |-> "", id |-> "", name |-> "", err |-> NilErr, queried |-> FALSE,
              returnedBefore |-> NoName]

\* New(client, noResolve)
ResolverInit ==
    /\ noResolve \in BOOLEAN
    /\ cache = [id \in ObjectIDs |-> NoName]
    /\ mgrNames \in [ObjectTypes \X ObjectIDs -> ObjectNames]
    /\ queries = [id \in ObjectIDs |-> 0]
    /\ returned = [id \in ObjectIDs |-> NoName]
    /\ rret = NoResolve

ResolverNext ==
    \/ \E t \in ObjectTypes, id \in ObjectIDs : Resolve(t, id)
    \/ ManagerRenames

----------------------------------------------------------------------------
(* Properties of the IDResolver *)

\* C3: with resolution enabled, a Resolve call for an ID for which Resolve
\* has returned a name before returns that name, with no error and without
\* a query to the manager; so the resolver makes at most one query per ID.
C3_CachedNameNoSecondQuery ==
    ~noResolve =>
        /\ (rret.id # "" /\ rret.returnedBefore # NoName)
           => /\ rret.name = rret.returnedBefore
              /\ rret.err = NilErr
              /\ ~rret.queried
        /\ \A id \in ObjectIDs :
              /\ queries[id] <= 1
              /\ returned[id] # NoName => queries[id] = 1

\* a second call got the name of the first although the manager by now
\* holds another name under both types
C3_Witness ==
    /\ ~noResolve
    /\ rret.id # ""
    /\ rret.returnedBefore # NoName
    /\ rret.name = rret.returnedBefore
    /\ ~rret.queried
    /\ \A t \in ObjectTypes : mgrNames[t, rret.id] # rret.name
    /\ queries[rret.id] = 1

\* C4: with noResolve set, Resolve returns the ID itself and a nil error
\* for every type and ID, makes no query and adds nothing to the cache.
C4_NoResolveReturnsID ==
    noResolve =>
        /\ rret.id # "" => rret.name = rret.id /\ rret.err = NilErr /\ ~rret.queried
        /\ \A id \in ObjectIDs : queries[id] = 0 /\ cache[id] = NoName

\* Resolve was called with noResolve set, for an ID whose name the manager
\* holds
C4_Witness ==
    /\ noResolve
    /\ rret.id \in ObjectIDs
    /\ rret.t \in ObjectTypes
    /\ rret.name = rret.id
    /\ mgrNames[rret.t, rret.id] \in ObjectNames

----------------------------------------------------------------------------
(* Specifications: the three programs share no state *)

\* no daemon in the picture: no controller, no network, no call
DaemonIdle == netController = FALSE /\ nets = {} /\ ret = NoRet

\* no resolver in use
ResolverIdle ==
    /\ noResolve = TRUE
    /\ cache = [id \in ObjectIDs |-> NoName]
    /\ mgrNames = [x \in ObjectTypes \X ObjectIDs |-> "name1"]
    /\ queries = [id \in ObjectIDs |-> 0]
    /\ returned = [id \in ObjectIDs |-> NoName]
    /\ rret = NoResolve

\* no deploy in the picture
DeployIdle ==
    /\ DeployInit
    /\ opts = [namespace |-> <<"s">>, services |-> [sv \in ServiceNames |-> <<>>]]

InitDaemon == DaemonInit /\ DeployIdle /\ ResolverIdle

InitDeploy == DaemonIdle /\ DeployInit /\ ResolverIdle

InitResolver == DaemonIdle /\ DeployIdle /\ ResolverInit

\* the daemon's network calls
SpecDaemon == InitDaemon /\ [][DaemonNext]_vars

\* stack deploy against the manager
SpecDeploy == InitDeploy /\ [][DeployNext]_vars

\* a command using an IDResolver
SpecResolver == InitResolver /\ [][ResolverNext]_vars

====
